---- MODULE Spec2Model ----
(***************************************************************************)
(* A model of prediction-market-tools: the normalization layer             *)
(* (prediction_market_tools/models.py), the two platform fetchers          *)
(* (kalshi_ingest.py, polymarket_ingest.py) and the refresh loop with its  *)
(* readers (main.py).                                                      *)
(*                                                                         *)
(* Numbers.  A Python float is held as a fixed-point integer with Scale    *)
(* units per 1.0: 0.45 is 45, 45.0 is 4500 and the literal 100 is 10000.   *)
(* The domains below are chosen so that every product and quotient the     *)
(* code forms is exact in this representation; binary rounding of floats   *)
(* is outside the model.                                                   *)
(*                                                                         *)
(* JSON.  A dict is a record holding every key the code looks up; a key    *)
(* the payload lacks holds Missing, a JSON null holds None.                *)
(***************************************************************************)
EXTENDS Integers, Sequences, FiniteSets, TLC

VARIABLES
    payload,          \* harness: the argument handed to a function
    result,           \* harness: what the function returned (or that it raised)
    step,             \* harness: "input" before the call, "done" after it
    pc,               \* update_data_loop: where the refresh thread stands
    cycle,            \* update_data_loop: passes of the while loop begun
    config,           \* update_data_loop: config.json as read in this pass
    caught,           \* update_data_loop: the exception its except clause caught
    kalshi_filtered,  \* update_data_loop: local of the same name
    polymarket_filtered, \* update_data_loop: local of the same name
    ti,               \* load_kalshi_bundles: index of the ticker being processed
    bundles,          \* load_kalshi_bundles: local of the same name
    bundle,           \* load_kalshi_bundles: the bundle being enriched
    ci,               \* enrich_with_orderbooks: index of the contract
    http_log,         \* the requests of this pass and what each was answered
    shared_data,      \* main.shared_data
    shared_data_lock, \* main.shared_data_lock: "free" or its holder
    published,        \* history: the snapshots the refresh thread completed
    reader_pc,        \* render_landing_page: where a request thread stands
    seen              \* render_landing_page: the lists it iterated, by platform

harness_vars == <<payload, result, step>>
loop_vars == <<pc, cycle, config, caught, kalshi_filtered, polymarket_filtered>>
load_vars == <<ti, bundles, bundle, ci, http_log>>
shared_vars == <<shared_data, shared_data_lock, published>>
reader_vars == <<reader_pc, seen>>
vars == <<harness_vars, loop_vars, load_vars, shared_vars, reader_vars>>

-----------------------------------------------------------------------------
(* Values *)

Scale == 100
Num(n) == n * Scale
Mul(a, b) == (a * b) \div Scale
Div(a, b) == (a * Scale) \div b
Min(a, b) == IF a <= b THEN a ELSE b
Max(a, b) == IF a >= b THEN a ELSE b

None == [t |-> "None"]
Missing == [t |-> "missing"]
F(x) == [t |-> "float", v |-> x]
S(s) == [t |-> "str", v |-> s]
L(items) == [t |-> "list", v |-> items]

\* no exception
NoError == ""

Returned(v) == [kind |-> "return", val |-> v]
Raised(e) == [kind |-> "raise", exc |-> e]

\* dict.get(key, default)
Get(v, default) == IF v = Missing THEN default ELSE v

\* truthiness of a JSON value: None, a missing key's None, 0 and "" are falsy
Truthy(v) ==
    CASE v = Missing -> FALSE
      [] v = None -> FALSE
      [] v.t = "float" -> v.v # 0
      [] v.t = "str" -> v.v # ""
      [] v.t = "list" -> v.v # <<>>
      [] OTHER -> TRUE

-----------------------------------------------------------------------------
(* OrderBookData: models.py 61-126 *)

TargetQty == 100
Hundred == Num(100)

\* the loop of _calculate_avg_price from level i on; returns the loop's
\* variables when it ends (exhausted, or left by the break)
RECURSIVE WalkLevels(_, _, _, _)
WalkLevelsOverfill(orders, i, remaining, weighted_sum) ==
    IF i > Len(orders)
    THEN [remaining |-> remaining, weighted_sum |-> weighted_sum]
    ELSE LET price == orders[i][1]
             qty == orders[i][2]
             ws == weighted_sum + Mul(Hundred - price, qty)
             rem == remaining - qty
         IN  IF rem <= 0
             THEN [remaining |-> rem, weighted_sum |-> ws]
             ELSE WalkLevels(orders, i + 1, rem, ws)
WalkLevelsNoComplement(orders, i, remaining, weighted_sum) ==
    IF i > Len(orders)
    THEN [remaining |-> remaining, weighted_sum |-> weighted_sum]
    ELSE LET price == orders[i][1]
             qty == orders[i][2]
             fill_qty == Min(remaining, qty)
             ws == weighted_sum + Mul(price, fill_qty)
             rem == remaining - fill_qty
         IN  IF rem <= 0
             THEN [remaining |-> rem, weighted_sum |-> ws]
             ELSE WalkLevels(orders, i + 1, rem, ws)
WalkLevels(orders, i, remaining, weighted_sum) ==
    IF i > Len(orders)
    THEN [remaining |-> remaining, weighted_sum |-> weighted_sum]
    ELSE LET price == orders[i][1]
             qty == orders[i][2]
             fill_qty == Min(remaining, qty)
             ws == weighted_sum + Mul(Hundred - price, fill_qty)
             rem == remaining - fill_qty
         IN  IF rem <= 0
             THEN [remaining |-> rem, weighted_sum |-> ws]
             ELSE WalkLevels(orders, i + 1, rem, ws)

_calculate_avg_price_partial(orders, target_qty) ==
    IF orders = <<>>
    THEN None
    ELSE LET end == WalkLevels(orders, 1, target_qty, 0)
         IN  F(Div(end.weighted_sum, target_qty))
_calculate_avg_price(orders, target_qty) ==
    IF orders = <<>>
    THEN None
    ELSE LET end == WalkLevels(orders, 1, target_qty, 0)
         IN  IF end.remaining > 0
             THEN None
             ELSE F(Div(end.weighted_sum, target_qty))

\* OrderBookData.__init__
OrderBookData(yes, no) ==
    [yes |-> yes, no |-> no,
     yes_avg_price_100 |-> _calculate_avg_price(no, Num(TargetQty)),
     no_avg_price_100 |-> _calculate_avg_price(yes, Num(TargetQty))]

\* sorted(levels, key=lambda x: x[0], reverse=True): a stable sort by price,
\* highest first, levels of equal price keeping their order
RECURSIVE InsertDesc(_, _)
InsertDesc(sorted, x) ==
    IF sorted = <<>>
    THEN <<x>>
    ELSE IF Head(sorted)[1] >= x[1]
         THEN <<Head(sorted)>> \o InsertDesc(Tail(sorted), x)
         ELSE <<x>> \o sorted
RECURSIVE SortedDesc(_)
SortedDesc(levels) ==
    IF levels = <<>>
    THEN <<>>
    ELSE InsertDesc(SortedDesc(SubSeq(levels, 1, Len(levels) - 1)), levels[Len(levels)])

RECURSIVE SelectWellFormed(_)
SelectWellFormed(items) ==
    IF items = <<>>
    THEN <<>>
    ELSE IF Len(Head(items)) = 2
         THEN <<Head(items)>> \o SelectWellFormed(Tail(items))
         ELSE SelectWellFormed(Tail(items))

\* parse_side of from_kalshi_json; a side is [is_list, items], an item a
\* list of numbers
kalshi_parse_side(side) ==
    IF ~side.is_list
    THEN <<>>
    ELSE SortedDesc(SelectWellFormed(side.items))

from_kalshi_json(data) ==
    OrderBookData(kalshi_parse_side(data.yes), kalshi_parse_side(data.no))

\* parse_side of from_polymarket_json; an item is a dict [price, size] on
\* the 0-1 scale
polymarket_parse_side_no_invert(side, is_asks) ==
    IF ~side.is_list
    THEN <<>>
    ELSE SortedDesc([i \in 1..Len(side.items) |->
                          <<Mul(side.items[i].price, Hundred), side.items[i].size>>])
polymarket_parse_side(side, is_asks) ==
    IF ~side.is_list
    THEN <<>>
    ELSE LET prices == [i \in 1..Len(side.items) |->
                          <<Mul(side.items[i].price, Hundred), side.items[i].size>>]
             inverted == IF is_asks
                         THEN [i \in 1..Len(prices) |->
                                 <<Hundred - prices[i][1], prices[i][2]>>]
                         ELSE prices
         IN  SortedDesc(inverted)

from_polymarket_json(data) ==
    IF data.error # Missing
    THEN OrderBookData(<<>>, <<>>)
    ELSE OrderBookData(polymarket_parse_side(data.bids, FALSE),
                       polymarket_parse_side(data.asks, TRUE))

-----------------------------------------------------------------------------
(* The order-book harness: every payload of the bounded domain, handed to   *)
(* the constructor of its platform.                                         *)

MaxLevels == 2

SeqsUpTo(set, n) == UNION {[1..k -> set] : k \in 0..n}

\* exchange-style levels [price, qty] in cents and contracts, and one item
\* that is not a 2-list
KalshiItems ==
    {<<Num(60), Num(40)>>, <<Num(60), Num(60)>>, <<Num(20), Num(40)>>,
     <<Num(20), Num(100)>>, <<Num(35), Num(0)>>, <<Num(60)>>}

\* peer-to-peer levels on the 0-1 scale
PolymarketItems ==
    {[price |-> 30, size |-> Num(10)], [price |-> 30, size |-> Num(60)],
     [price |-> 70, size |-> Num(40)], [price |-> 70, size |-> Num(100)],
     [price |-> 45, size |-> Num(60)]}

Sides(items) ==
    {[is_list |-> TRUE, items |-> s] : s \in SeqsUpTo(items, MaxLevels)}
        \cup {[is_list |-> FALSE, items |-> <<>>]}

KalshiBooks ==
    {[kind |-> "kalshi_book", yes |-> y, no |-> n] :
        y \in Sides(KalshiItems), n \in Sides(KalshiItems)}

PolymarketBooks ==
    {[kind |-> "polymarket_book", error |-> Missing, bids |-> b, asks |-> a] :
        b \in Sides(PolymarketItems), a \in Sides(PolymarketItems)}
        \cup {[kind |-> "polymarket_book", error |-> S("not found"),
               bids |-> [is_list |-> FALSE, items |-> <<>>],
               asks |-> [is_list |-> FALSE, items |-> <<>>]]}

\* levels a validating parser would refuse: a price above 100 cents (above
\* 1 on the 0-1 scale) and a negative quantity, beside a level in range
KalshiItemsOutOfRange ==
    {<<Num(150), Num(40)>>, <<Num(60), 0 - Num(5)>>, <<Num(60), Num(100)>>}

PolymarketItemsOutOfRange ==
    {[price |-> 150, size |-> Num(40)], [price |-> 30, size |-> 0 - Num(5)],
     [price |-> 70, size |-> Num(100)]}

KalshiBooksOutOfRange ==
    {[kind |-> "kalshi_book", yes |-> y, no |-> n] :
        y \in Sides(KalshiItemsOutOfRange), n \in Sides(KalshiItemsOutOfRange)}

PolymarketBooksOutOfRange ==
    {[kind |-> "polymarket_book", error |-> Missing, bids |-> b, asks |-> a] :
        b \in Sides(PolymarketItemsOutOfRange), a \in Sides(PolymarketItemsOutOfRange)}

\* the state of the program proper while a harness runs
ProgramIdle ==
    /\ pc = "idle"
    /\ cycle = 0
    /\ config = None
    /\ caught = NoError
    /\ kalshi_filtered = None
    /\ polymarket_filtered = None
    /\ ti = 0
    /\ bundles = <<>>
    /\ bundle = None
    /\ ci = 0
    /\ http_log = <<>>
    /\ shared_data = [kalshi |-> <<>>, polymarket |-> <<>>]
    /\ shared_data_lock = "free"
    /\ published = {[kalshi |-> <<>>, polymarket |-> <<>>]}
    /\ reader_pc = "idle"
    /\ seen = None

program_vars == <<loop_vars, load_vars, shared_vars, reader_vars>>

InitBook ==
    /\ payload \in KalshiBooks \cup PolymarketBooks
    /\ result = None
    /\ step = "input"
    /\ ProgramIdle

BuildKalshiBook ==
    /\ step = "input"
    /\ payload.kind = "kalshi_book"
    /\ result' = from_kalshi_json(payload)
    /\ step' = "done"
    /\ UNCHANGED <<payload, program_vars>>

BuildPolymarketBook ==
    /\ step = "input"
    /\ payload.kind = "polymarket_book"
    /\ result' = from_polymarket_json(payload)
    /\ step' = "done"
    /\ UNCHANGED <<payload, program_vars>>

NextBook == BuildKalshiBook \/ BuildPolymarketBook

SpecBook == InitBook /\ [][NextBook]_vars

\* the same constructors on every payload, those out of range included
InitBookAny ==
    /\ payload \in KalshiBooks \cup PolymarketBooks
                    \cup KalshiBooksOutOfRange \cup PolymarketBooksOutOfRange
    /\ result = None
    /\ step = "input"
    /\ ProgramIdle

SpecBookAny == InitBookAny /\ [][NextBook]_vars

-----------------------------------------------------------------------------
(* Properties of the order book *)

RECURSIVE SumQty(_)
SumQty(levels) ==
    IF levels = <<>> THEN 0 ELSE Head(levels)[2] + SumQty(Tail(levels))

NonNegative(levels) == \A i \in 1..Len(levels) : levels[i][2] >= 0

IsSortedDesc(levels) ==
    \A i \in 1..(Len(levels) - 1) : levels[i][1] >= levels[i + 1][1]

\* fill_i = min(quantity_i, quantity still unfilled before level i)
FillOf(levels, i) ==
    Min(levels[i][2], Max(0, Num(TargetQty) - SumQty(SubSeq(levels, 1, i - 1))))

\* sum over the first i levels of (100 - price_j) * fill_j
RECURSIVE ComplementCost(_, _)
ComplementCost(levels, i) ==
    IF i = 0
    THEN 0
    ELSE ComplementCost(levels, i - 1) + Mul(Hundred - levels[i][1], FillOf(levels, i))

\* sum over all levels of (100 - price_j) * quantity_j
RECURSIVE FullCost(_)
FullCost(levels) ==
    IF levels = <<>>
    THEN 0
    ELSE Mul(Hundred - Head(levels)[1], Head(levels)[2]) + FullCost(Tail(levels))

WalkedAverage(side, avg) ==
    /\ (NonNegative(side) /\ SumQty(side) >= Num(TargetQty))
          => avg = F(Div(ComplementCost(side, Len(side)), Num(TargetQty)))
    /\ (NonNegative(side) /\ SumQty(side) = Num(TargetQty))
          => avg = F(Div(FullCost(side), Num(TargetQty)))

\* C1: when the quantities of the no side are non-negative and sum to at
\* least 100, yes_avg_price_100 is the sum over the levels, in their order,
\* of (100 - price) * fill divided by 100, fill being what of the level is
\* still needed to reach 100; no_avg_price_100 is the same over the yes
\* side; quantities summing to exactly 100 give the weighted average of
\* (100 - price) * quantity.
C1_AvgPriceIsWalkedAverage ==
    step = "done" =>
        /\ WalkedAverage(result.no, result.yes_avg_price_100)
        /\ WalkedAverage(result.yes, result.no_avg_price_100)

\* a book whose no side needs both of its levels, the second one in part,
\* while its yes side cannot fill 100: 60 at 60 and 40 of the 100 at 20
C1_Witness ==
    /\ step = "done"
    /\ result.no = <<<<Num(60), Num(60)>>, <<Num(20), Num(100)>>>>
    /\ result.yes_avg_price_100 = F(Num(56))
    /\ result.no_avg_price_100 = None

\* C2: an average is unavailable (None) exactly when the quantities of the
\* side it walks sum to less than 100, the empty side included; it is a
\* number only when 100 units are filled.
C2_AllOrNothing ==
    step = "done" =>
        /\ (result.yes_avg_price_100 = None) <=> (SumQty(result.no) < Num(TargetQty))
        /\ (result.no_avg_price_100 = None) <=> (SumQty(result.yes) < Num(TargetQty))

\* a no side with levels that sum to 80, and an empty yes side
C2_Witness ==
    /\ step = "done"
    /\ Len(result.no) = 2
    /\ SumQty(result.no) = Num(80)
    /\ result.yes_avg_price_100 = None
    /\ result.yes = <<>>
    /\ result.no_avg_price_100 = None

InRange(levels) ==
    \A i \in 1..Len(levels) : levels[i][1] >= 0 /\ levels[i][1] <= Hundred /\ levels[i][2] >= 0

\* C15: in every order book made from a payload of either platform, both
\* sides are sorted by price, highest first, and every level has a price
\* from 0 to 100 and a quantity that is not negative.
C15_OrderBookInvariant ==
    step = "done" =>
        /\ IsSortedDesc(result.yes) /\ IsSortedDesc(result.no)
        /\ InRange(result.yes) /\ InRange(result.no)

\* the level at which the walk fills the target and stops
LastConsumed(levels) ==
    CHOOSE i \in 1..Len(levels) :
        /\ SumQty(SubSeq(levels, 1, i)) >= Num(TargetQty)
        /\ SumQty(SubSeq(levels, 1, i - 1)) < Num(TargetQty)

AverageWithinWalk(side, avg) ==
    (IsSortedDesc(side) /\ InRange(side) /\ avg # None) =>
        /\ Hundred - side[1][1] <= avg.v
        /\ avg.v <= Hundred - side[LastConsumed(side)][1]
        /\ 0 <= avg.v
        /\ avg.v <= Hundred

\* C17: for a side sorted by price, highest first, with prices from 0 to
\* 100 and no negative quantity, an available average p lies between
\* 100 - (price of the first level) and 100 - (price of the last level the
\* walk consumed), hence between 0 and 100: the average over 100 units is
\* never better than the best single-unit price.
C17_AverageBounds ==
    step = "done" =>
        /\ AverageWithinWalk(result.no, result.yes_avg_price_100)
        /\ AverageWithinWalk(result.yes, result.no_avg_price_100)

\* a yes side walked over two prices, 40 at 60 and 60 of the 100 at 20:
\* 40 <= 64 <= 80
C17_Witness ==
    /\ step = "done"
    /\ result.yes = <<<<Num(60), Num(40)>>, <<Num(20), Num(100)>>>>
    /\ LastConsumed(result.yes) = 2
    /\ result.no_avg_price_100 = F(Num(64))

Count(levels, l) == Cardinality({i \in 1..Len(levels) : levels[i] = l})

Range(seq) == {seq[i] : i \in 1..Len(seq)}

SameLevels(levels, expected) ==
    /\ Len(levels) = Len(expected)
    /\ \A l \in Range(levels) \cup Range(expected) : Count(levels, l) = Count(expected, l)

\* C3: a peer-to-peer book with bids B and asks A and no error key gives a
\* yes side holding exactly the levels (100 * p, s) for (p, s) in B and a
\* no side holding exactly the levels (100 - 100 * p, s) for (p, s) in A,
\* each side ordered by price, highest first.
C3_PolymarketSides ==
    (step = "done" /\ payload.kind = "polymarket_book" /\ payload.error = Missing
        /\ payload.bids.is_list /\ payload.asks.is_list) =>
        LET B == payload.bids.items
            A == payload.asks.items
        IN  /\ SameLevels(result.yes,
                          [i \in 1..Len(B) |-> <<Mul(Num(100), B[i].price), B[i].size>>])
            /\ SameLevels(result.no,
                          [i \in 1..Len(A) |->
                              <<Num(100) - Mul(Num(100), A[i].price), A[i].size>>])
            /\ IsSortedDesc(result.yes)
            /\ IsSortedDesc(result.no)

\* asks (0.7, 40) then (0.3, 10): the no side is (70, 10) then (30, 40)
C3_Witness ==
    /\ step = "done"
    /\ payload.kind = "polymarket_book"
    /\ payload.error = Missing
    /\ payload.asks.is_list
    /\ payload.asks.items = <<[price |-> 70, size |-> Num(40)], [price |-> 30, size |-> Num(10)]>>
    /\ payload.bids.is_list
    /\ Len(payload.bids.items) = 2
    /\ payload.bids.items[1].price < payload.bids.items[2].price
    /\ result.no = <<<<Num(70), Num(10)>>, <<Num(30), Num(40)>>>>

-----------------------------------------------------------------------------
(* Events and contracts: models.py 129-278, polymarket_ingest.py 20-66 *)

Inf == [t |-> "inf"]
NegInf == [t |-> "-inf"]

ValidDates == {"2025-12-31T00:00:00Z"}

\* isoparse / datetime.fromisoformat of a string
ParseDate(s) ==
    IF s.t = "str" /\ s.v \in ValidDates THEN Returned(S(s.v)) ELSE Raised("ValueError")

\* safe_parse_datetime(key, source=...): an unparsable or missing value is None
safe_parse_datetime(v) ==
    IF Truthy(v) /\ ParseDate(v).kind = "return" THEN ParseDate(v).val ELSE None

\* float(v) of a JSON value
Float(v) ==
    CASE v = None -> Raised("TypeError")
      [] v.t = "float" -> Returned(v)
      [] OTHER -> Raised("ValueError")

\* PredictionMarketEvent.from_kalshi_json
event_from_kalshi_json(data) ==
    IF data.title = Missing
    THEN Raised("KeyError")
    ELSE Returned([title |-> data.title,
                   ticker |-> Get(data.series_ticker, Get(data.event_ticker, S(""))),
                   strike_date |-> Get(data.strike_date, None),
                   mutually_exclusive |-> FALSE])

\* PredictionMarketEvent.from_polymarket_json
event_from_polymarket_json(data) ==
    IF data.title = Missing \/ data.ticker = Missing
    THEN Raised("KeyError")
    ELSE Returned([title |-> data.title,
                   ticker |-> data.ticker,
                   strike_date |-> safe_parse_datetime(data.endDate),
                   mutually_exclusive |-> TRUE])

\* polymarket_ingest.parse_polymarket_event
parse_polymarket_event(event) ==
    IF event.title = Missing \/ event.ticker = Missing \/ event.endDate = Missing
    THEN Raised("KeyError")
    ELSE IF ParseDate(event.endDate).kind = "raise"
         THEN Raised("ValueError")
         ELSE Returned([title |-> event.title,
                        ticker |-> event.ticker,
                        strike_date |-> ParseDate(event.endDate).val,
                        mutually_exclusive |-> TRUE])

\* PredictionMarketContract.from_kalshi_market_json
from_kalshi_market_json_swapped(market, event) ==
    LET functional == Float(Get(market.functional_strike, F(0)))
        floor == Float(Get(market.floor_strike, F(0)))
    IN  IF functional.kind = "raise" /\ floor.kind = "raise"
        THEN Raised(floor.exc)
        ELSE IF market.ticker = Missing \/ market.title = Missing
        THEN Raised("KeyError")
        ELSE Returned(
            [ticker |-> market.ticker,
             title |-> market.title,
             event |-> event,
             yes_bid |-> Get(market.yes_bid, None),
             yes_ask |-> Get(market.yes_ask, None),
             no_bid |-> Get(market.no_bid, None),
             no_ask |-> Get(market.no_ask, None),
             last_price |-> Get(market.last_price, None),
             volume |-> Get(market.volume, None),
             strike_type |-> Get(market.strike_type, None),
             strike_upper |-> IF Get(market.strike_type, None) = S("greater")
                              THEN Get(market.floor_strike, None) ELSE Inf,
             strike_lower |-> IF Get(market.strike_type, None) = S("less")
                              THEN Get(market.cap_strike, None) ELSE NegInf,
             order_book |-> None,
             platform |-> "Kalshi",
             misc_data |-> None])
from_kalshi_market_json(market, event) ==
    LET functional == Float(Get(market.functional_strike, F(0)))
        floor == Float(Get(market.floor_strike, F(0)))
    IN  IF functional.kind = "raise" /\ floor.kind = "raise"
        THEN Raised(floor.exc)
        ELSE IF market.ticker = Missing \/ market.title = Missing
        THEN Raised("KeyError")
        ELSE Returned(
            [ticker |-> market.ticker,
             title |-> market.title,
             event |-> event,
             yes_bid |-> Get(market.yes_bid, None),
             yes_ask |-> Get(market.yes_ask, None),
             no_bid |-> Get(market.no_bid, None),
             no_ask |-> Get(market.no_ask, None),
             last_price |-> Get(market.last_price, None),
             volume |-> Get(market.volume, None),
             strike_type |-> Get(market.strike_type, None),
             strike_upper |-> IF Get(market.strike_type, None) = S("less")
                              THEN Get(market.cap_strike, None) ELSE Inf,
             strike_lower |-> IF Get(market.strike_type, None) = S("greater")
                              THEN Get(market.floor_strike, None) ELSE NegInf,
             order_book |-> None,
             platform |-> "Kalshi",
             misc_data |-> None])

\* float(market.get(key, 0)) if market.get(key) else None
BestPrice(v) == IF Truthy(v) THEN Float(v) ELSE Returned(None)

\* x * 100 and (1 - x) * 100 of an Optional[float]
Times100(x) == IF x = None THEN None ELSE F(Mul(x.v, Hundred))
Complement100(x) == IF x = None THEN None ELSE F(Mul(Num(1) - x.v, Hundred))

\* eval(market.get("outcomePrices", "[]"))
EvalOutcomePrices(v) == IF v.t = "str" THEN Returned(v) ELSE Raised("TypeError")

\* the first exception among the results of the sub-expressions, in the
\* order the code evaluates them
Raises(results) == \E i \in 1..Len(results) : results[i].kind = "raise"
FirstRaise(results) ==
    results[CHOOSE i \in 1..Len(results) :
                /\ results[i].kind = "raise"
                /\ \A j \in 1..(i - 1) : results[j].kind = "return"]

Lookup(v) == IF v = Missing THEN Raised("KeyError") ELSE Returned(v)

\* polymarket_ingest.parse_polymarket_market; the keyword volume_24h, which
\* the call does not pass, takes the default None of an Optional field
parse_polymarket_market(market, event) ==
    LET outcome_prices == EvalOutcomePrices(Get(market.outcomePrices, S("[]")))
        best_bid == BestPrice(market.bestBid)
        best_ask == BestPrice(market.bestAsk)
        last_price == Float(Get(market.lastTradePrice, F(0)))
        volume == Float(Get(market.volume, F(0)))
        evaluated == <<outcome_prices, best_bid, best_ask, Lookup(market.conditionId),
                       Lookup(market.question), last_price, volume>>
    IN  IF Raises(evaluated)
        THEN FirstRaise(evaluated)
        ELSE Returned(
            [ticker |-> market.conditionId,
             title |-> market.question,
             event |-> event,
             yes_bid |-> best_bid.val,
             yes_ask |-> best_ask.val,
             no_bid |-> None,
             no_ask |-> None,
             last_price |-> last_price.val,
             volume |-> volume.val,
             strike_type |-> None,
             strike_upper |-> None,
             strike_lower |-> None,
             order_book |-> None,
             platform |-> "Polymarket",
             misc_data |-> None])

\* PredictionMarketContract.from_polymarket_market_json: any exception of
\* the body is re-raised as ValueError
from_polymarket_market_json(market, event) ==
    LET best_bid == BestPrice(market.bestBid)
        best_ask == BestPrice(market.bestAsk)
        last_price == Float(Get(market.lastTradePrice, F(0)))
        volume == Float(Get(market.volume, F(0)))
        evaluated == <<best_bid, best_ask, Lookup(market.conditionId),
                       Lookup(market.question), last_price, volume>>
    IN  IF Raises(evaluated)
        THEN Raised("ValueError")
        ELSE Returned(
            [ticker |-> market.conditionId,
             title |-> market.question,
             event |-> event,
             yes_bid |-> Times100(best_bid.val),
             yes_ask |-> Times100(best_ask.val),
             no_bid |-> Complement100(best_ask.val),
             no_ask |-> Complement100(best_bid.val),
             last_price |-> Times100(last_price.val),
             volume |-> volume.val,
             strike_type |-> None,
             strike_upper |-> None,
             strike_lower |-> None,
             order_book |-> None,
             platform |-> "Polymarket",
             misc_data |-> [clobTokenIds |-> Get(market.clobTokenIds, S(""))]])

-----------------------------------------------------------------------------
(* Bundles: models.py 289-331, polymarket_ingest.py 85-118 *)

IsReturn(r) == r.kind = "return"
ValuesOf(results) == [i \in 1..Len(results) |-> results[i].val]

\* the loop "for mkt in markets: try: contracts.append(parse(mkt, event))
\* except Exception: continue" over the results of the parses
AppendUntilRaise(results) ==
    LET bad == {i \in 1..Len(results) : ~IsReturn(results[i])}
        stop == IF bad = {} THEN Len(results) + 1
                ELSE CHOOSE i \in bad : \A j \in bad : i <= j
    IN  ValuesOf(SubSeq(results, 1, stop - 1))
AppendParsed(results) == ValuesOf(SelectSeq(results, IsReturn))

Bundle(platform, event, contracts) ==
    [platform |-> platform, event |-> event, contracts |-> contracts]

\* PredictionMarketBundle.from_kalshi_event_payload: None when the event
\* does not parse; the loop over a markets value that is None raises
from_kalshi_event_payload(data) ==
    LET event == IF data.event = Missing
                 THEN Raised("KeyError")
                 ELSE event_from_kalshi_json(data.event)
        markets == Get(data.markets, L(<<>>))
    IN  IF event.kind = "raise"
        THEN Returned(None)
        ELSE IF markets = None
        THEN Raised("TypeError")
        ELSE Returned(Bundle("Kalshi", event.val,
                 AppendParsed([i \in 1..Len(markets.v) |->
                                  from_kalshi_market_json(markets.v[i], event.val)])))

\* PredictionMarketBundle.from_polymarket_event_payload: None whenever
\* anything outside the per-market try raises
from_polymarket_event_payload(event_data) ==
    LET event == event_from_polymarket_json(event_data)
        markets == Get(event_data.markets, L(<<>>))
    IN  IF event.kind = "raise" \/ markets = None
        THEN Returned(None)
        ELSE Returned(Bundle("Polymarket", event.val,
                 AppendParsed([i \in 1..Len(markets.v) |->
                                  from_polymarket_market_json(markets.v[i], event.val)])))

\* one pass of the loop of extract_polymarket_bundles: the bundles the
\* event adds (none when it is discarded or does not parse)
ExtractOne(event) ==
    IF event.markets = Missing \/ event.markets = None \/ event.markets = L(<<>>)
    THEN <<>>
    ELSE LET event_obj == parse_polymarket_event(event)
         IN  IF event_obj.kind = "raise"
             THEN <<>>
             ELSE <<Bundle("Polymarket", event_obj.val,
                      AppendParsed([i \in 1..Len(event.markets.v) |->
                                       parse_polymarket_market(event.markets.v[i],
                                                               event_obj.val)]))>>

\* polymarket_ingest.extract_polymarket_bundles
RECURSIVE extract_polymarket_bundles(_)
extract_polymarket_bundles(raw_events) ==
    IF raw_events = <<>>
    THEN <<>>
    ELSE ExtractOne(Head(raw_events)) \o extract_polymarket_bundles(Tail(raw_events))

-----------------------------------------------------------------------------
(* HTTP and the fetchers: kalshi_ingest.py 25-64, polymarket_ingest.py      *)
(* 69-83 and 116-118.  A response is what the server and the network make   *)
(* of one request: a transport error, or a status and a body.              *)

NotJson == [t |-> "text"]
J(data) == [t |-> "json", v |-> data]

Response(error, status, body) == [error |-> error, status |-> status, body |-> body]

StatusOK == 200
StatusServerError == 500

\* client.get(...); resp.raise_for_status(); resp.json()
GetJson(resp) ==
    IF resp.error # NoError
    THEN Raised(resp.error)
    ELSE IF resp.status >= 400
    THEN Raised("HTTPStatusError")
    ELSE IF resp.body = NotJson
    THEN Raised("JSONDecodeError")
    ELSE Returned(resp.body.v)

\* the exceptions "except httpx.HTTPError" catches
IsHTTPError(exc) == exc \in {"ConnectError", "ReadTimeout", "HTTPStatusError"}

\* a or b
Or(a, b) == IF Truthy(a) THEN a ELSE b

\* kalshi_ingest.fetch_event_with_markets
fetch_event_with_markets(resp) ==
    LET data == GetJson(resp)
    IN  IF data.kind = "raise"
        THEN data
        ELSE IF data.val.event = Missing
        THEN Raised("KeyError")
        ELSE from_kalshi_event_payload(
                [event |-> data.val.event,
                 markets |-> Or(Get(data.val.markets, None),
                                Get(data.val.event.markets, None))])

\* kalshi_ingest.fetch_orderbook
fetch_orderbook(resp) ==
    LET data == GetJson(resp)
    IN  IF data.kind = "raise"
        THEN data
        ELSE IF data.val.orderbook = Missing
        THEN Raised("KeyError")
        ELSE Returned(from_kalshi_json(data.val.orderbook))

\* polymarket_ingest.fetch_polymarket_events
fetch_polymarket_events(resp) == GetJson(resp)

\* polymarket_ingest.load_polymarket_bundles
load_polymarket_bundles(resp) ==
    LET raw_events == fetch_polymarket_events(resp)
    IN  IF raw_events.kind = "raise"
        THEN raw_events
        ELSE Returned(extract_polymarket_bundles(raw_events.val))

\* the keyword parameters of "async def load_polymarket_bundles()"
load_polymarket_bundles_parameters == {}

\* binding the keywords of a call to the parameters of the callee
Binds(keywords, parameters) == keywords \subseteq parameters

-----------------------------------------------------------------------------
(* The normalization harness: every event payload of the bounded domain,    *)
(* handed to the assembler of its platform.                                 *)

MaxMarkets == 5
MaxListedMarkets == 2
MaxEvents == 2

KalshiMarket(ticker, functional_strike, strike_type, floor_strike, cap_strike) ==
    [ticker |-> ticker, title |-> S("Will it happen?"),
     yes_bid |-> F(Num(40)), yes_ask |-> F(Num(45)),
     no_bid |-> F(Num(55)), no_ask |-> F(Num(60)),
     last_price |-> F(Num(42)), volume |-> F(Num(1000)),
     functional_strike |-> functional_strike, strike_type |-> strike_type,
     floor_strike |-> floor_strike, cap_strike |-> cap_strike]

\* two markets that parse, one without a ticker and one whose strikes are null
KalshiMarkets ==
    {KalshiMarket(S("K-A"), Missing, S("greater"), F(Num(10)), Missing),
     KalshiMarket(S("K-B"), None, S("less"), Missing, F(Num(20))),
     KalshiMarket(Missing, Missing, Missing, Missing, Missing),
     KalshiMarket(S("K-D"), None, S("greater"), None, Missing)}

KalshiEvent(title) ==
    [title |-> title, series_ticker |-> Missing, event_ticker |-> S("KEV"),
     strike_date |-> Missing, markets |-> Missing]

KalshiEventPayloads ==
    {[kind |-> "kalshi_event_payload", event |-> e, markets |-> m] :
        e \in {KalshiEvent(S("An event")), KalshiEvent(Missing)},
        m \in {L(l) : l \in SeqsUpTo(KalshiMarkets, MaxMarkets)} \cup {None}}

PolymarketMarket(conditionId, bestBid, bestAsk) ==
    [conditionId |-> conditionId, question |-> S("Will it happen?"),
     bestBid |-> bestBid, bestAsk |-> bestAsk,
     lastTradePrice |-> F(42), volume |-> F(Num(1000)),
     outcomePrices |-> S("[0.4, 0.6]"), clobTokenIds |-> S("[1, 2]")]

\* bestBid 0.40 and bestAsk 0.45; an empty book's bestBid 0 and bestAsk 1;
\* a market without a conditionId
PolymarketMarkets ==
    {PolymarketMarket(S("0xa"), F(40), F(45)),
     PolymarketMarket(S("0xb"), F(0), F(100)),
     PolymarketMarket(Missing, F(40), F(45))}

PolymarketEvent(title, endDate, markets) ==
    [title |-> title, ticker |-> S("pev"), endDate |-> endDate, markets |-> markets]

PolymarketEvents(n) ==
    {PolymarketEvent(S("An event"), S("2025-12-31T00:00:00Z"), m) :
        m \in {L(l) : l \in SeqsUpTo(PolymarketMarkets, n)} \cup {Missing}}
    \cup {PolymarketEvent(Missing, S("2025-12-31T00:00:00Z"),
                          L(<<PolymarketMarket(S("0xa"), F(40), F(45))>>)),
          PolymarketEvent(S("An event"), S("soon"),
                          L(<<PolymarketMarket(S("0xa"), F(40), F(45))>>))}

PolymarketEventPayloads ==
    {[kind |-> "polymarket_event_payload", event_data |-> e] : e \in PolymarketEvents(MaxMarkets)}

PolymarketRawEvents ==
    {[kind |-> "polymarket_raw_events", raw_events |-> r] :
        r \in SeqsUpTo(PolymarketEvents(MaxListedMarkets), MaxEvents)}

\* what GET /events can be answered
PolymarketResponses ==
    {Response("ConnectError", StatusOK, NotJson),
     Response(NoError, StatusServerError, NotJson),
     Response(NoError, StatusOK, NotJson)}
    \cup {Response(NoError, StatusOK, J(r)) :
            r \in SeqsUpTo(PolymarketEvents(MaxListedMarkets), MaxEvents)}

PolymarketLoads ==
    {[kind |-> "polymarket_events_response", response |-> r] : r \in PolymarketResponses}

\* exchange-style markets: every strike_type with floor_strike and cap_strike
\* present, null or absent
KalshiStrikeMarkets ==
    {KalshiMarket(S("K-A"), functional_strike, strike_type, floor_strike, cap_strike) :
        functional_strike \in {Missing, None, F(Num(15))},
        strike_type \in {Missing, S("greater"), S("less"), S("between")},
        floor_strike \in {Missing, None, F(Num(10))},
        cap_strike \in {Missing, F(Num(20))}}

KalshiMarketPayloads ==
    {[kind |-> "kalshi_market", market |-> m] : m \in KalshiStrikeMarkets}

InitNorm ==
    /\ payload \in KalshiEventPayloads \cup PolymarketEventPayloads
                    \cup PolymarketRawEvents \cup PolymarketLoads
                    \cup KalshiMarketPayloads
    /\ result = None
    /\ step = "input"
    /\ ProgramIdle

FromKalshiEventPayload ==
    /\ step = "input"
    /\ payload.kind = "kalshi_event_payload"
    /\ result' = from_kalshi_event_payload(payload)
    /\ step' = "done"
    /\ UNCHANGED <<payload, program_vars>>

FromPolymarketEventPayload ==
    /\ step = "input"
    /\ payload.kind = "polymarket_event_payload"
    /\ result' = from_polymarket_event_payload(payload.event_data)
    /\ step' = "done"
    /\ UNCHANGED <<payload, program_vars>>

ExtractPolymarketBundles ==
    /\ step = "input"
    /\ payload.kind = "polymarket_raw_events"
    /\ result' = Returned(extract_polymarket_bundles(payload.raw_events))
    /\ step' = "done"
    /\ UNCHANGED <<payload, program_vars>>

\* load_polymarket_bundles() as polymarket_ingest declares it, on the
\* answer to its request
LoadPolymarketBundles ==
    /\ step = "input"
    /\ payload.kind = "polymarket_events_response"
    /\ result' = load_polymarket_bundles(payload.response)
    /\ step' = "done"
    /\ UNCHANGED <<payload, program_vars>>

FromKalshiMarketJson ==
    /\ step = "input"
    /\ payload.kind = "kalshi_market"
    /\ result' = from_kalshi_market_json(payload.market, None)
    /\ step' = "done"
    /\ UNCHANGED <<payload, program_vars>>

NextNorm ==
    \/ FromKalshiMarketJson
    \/ FromKalshiEventPayload
    \/ FromPolymarketEventPayload
    \/ ExtractPolymarketBundles
    \/ LoadPolymarketBundles

SpecNorm == InitNorm /\ [][NextNorm]_vars

-----------------------------------------------------------------------------
(* Properties of the normalization *)

\* the contracts of every peer-to-peer bundle the call returned
ReturnedPolymarketContracts ==
    CASE payload.kind = "polymarket_raw_events"
           \/ (payload.kind = "polymarket_events_response" /\ result.kind = "return") ->
            UNION {Range(result.val[i].contracts) : i \in 1..Len(result.val)}
      [] payload.kind = "polymarket_event_payload" /\ result.val # None ->
            Range(result.val.contracts)
      [] OTHER -> {}

\* every market of the domain has its own conditionId
SourceMarket(contract) ==
    CHOOSE m \in PolymarketMarkets : m.conditionId = contract.ticker

\* C4: a peer-to-peer contract made from a market with bestBid = b and
\* bestAsk = a has yes_bid = 100 * b, yes_ask = 100 * a,
\* no_bid = 100 - yes_ask and no_ask = 100 - yes_bid, for every b and a in
\* [0, 1].
C4_ComplementPricing ==
    step = "done" =>
        \A c \in ReturnedPolymarketContracts :
            LET b == SourceMarket(c).bestBid.v
                a == SourceMarket(c).bestAsk.v
            IN  /\ c.yes_bid = F(Mul(Num(100), b))
                /\ c.yes_ask = F(Mul(Num(100), a))
                /\ c.no_bid = F(Num(100) - Mul(Num(100), a))
                /\ c.no_ask = F(Num(100) - Mul(Num(100), b))

\* the contracts are the values of the parses that returned, in their order
ExactlyParsed(contracts, results) ==
    LET good == {i \in 1..Len(results) : results[i].kind = "return"}
        bad == {i \in 1..Len(results) : results[i].kind = "raise"}
    IN  /\ Len(contracts) = Len(results) - Cardinality(bad)
        /\ \A i \in good : contracts[Cardinality({j \in good : j <= i})] = results[i].val

\* the events extract_polymarket_bundles keeps: those with markets whose
\* event parses
KeptEvents(raw_events) ==
    {i \in 1..Len(raw_events) :
        /\ raw_events[i].markets \notin {Missing, None, L(<<>>)}
        /\ parse_polymarket_event(raw_events[i]).kind = "return"}

\* C5: an event payload with n markets of which k raise when parsed gives a
\* bundle whose contracts are exactly the n - k parsed markets, in payload
\* order, never no bundle or a failure; for the exchange-style assembler and
\* for both peer-to-peer assemblers.
C5_BadMarketsAreSkipped ==
    step = "done" =>
        /\ (payload.kind = "kalshi_event_payload" /\ payload.markets # None
              /\ event_from_kalshi_json(payload.event).kind = "return") =>
              /\ result.kind = "return"
              /\ result.val # None
              /\ ExactlyParsed(result.val.contracts,
                    [i \in 1..Len(payload.markets.v) |->
                        from_kalshi_market_json(payload.markets.v[i],
                            event_from_kalshi_json(payload.event).val)])
        /\ (payload.kind = "polymarket_event_payload" /\ payload.event_data.markets # Missing
              /\ event_from_polymarket_json(payload.event_data).kind = "return") =>
              /\ result.kind = "return"
              /\ result.val # None
              /\ ExactlyParsed(result.val.contracts,
                    [i \in 1..Len(payload.event_data.markets.v) |->
                        from_polymarket_market_json(payload.event_data.markets.v[i],
                            event_from_polymarket_json(payload.event_data).val)])
        /\ payload.kind = "polymarket_raw_events" =>
              LET kept == KeptEvents(payload.raw_events)
              IN  /\ Len(result.val) = Cardinality(kept)
                  /\ \A i \in kept :
                        ExactlyParsed(
                            result.val[Cardinality({j \in kept : j <= i})].contracts,
                            [k \in 1..Len(payload.raw_events[i].markets.v) |->
                                parse_polymarket_market(payload.raw_events[i].markets.v[k],
                                    parse_polymarket_event(payload.raw_events[i]).val)])

\* five exchange-style markets, the third without a ticker: four contracts,
\* in payload order
C5_Witness ==
    /\ step = "done"
    /\ payload.kind = "kalshi_event_payload"
    /\ payload.markets # None
    /\ Len(payload.markets.v) = 5
    /\ payload.markets.v[3].ticker = Missing
    /\ result.kind = "return"
    /\ result.val # None
    /\ [i \in 1..Len(result.val.contracts) |-> result.val.contracts[i].ticker]
         = <<S("K-A"), S("K-B"), S("K-B"), S("K-A")>>

\* an exchange-style market was made into a contract
KalshiContractMade ==
    /\ step = "done"
    /\ payload.kind = "kalshi_market"
    /\ result.kind = "return"

\* C13 as amended: a market with strike_type "greater" gets its lower bound
\* from floor_strike and is unbounded above (upper = +infinity); a market
\* with strike_type "less" gets its upper bound from cap_strike and is
\* unbounded below (lower = -infinity).
C13_StrikeBoundsFollowCode ==
    KalshiContractMade =>
        /\ payload.market.strike_type = S("greater") =>
                /\ result.val.strike_lower = Get(payload.market.floor_strike, None)
                /\ result.val.strike_upper = Inf
        /\ payload.market.strike_type = S("less") =>
                /\ result.val.strike_upper = Get(payload.market.cap_strike, None)
                /\ result.val.strike_lower = NegInf

\* a "greater" market with floor_strike 10 and a cap_strike of 20 that does
\* not apply
C13_Witness ==
    /\ KalshiContractMade
    /\ payload.market.strike_type = S("greater")
    /\ payload.market.floor_strike = F(Num(10))
    /\ payload.market.cap_strike = F(Num(20))
    /\ result.val.strike_lower = F(Num(10))
    /\ result.val.strike_upper = Inf

\* C13 as stated: "greater" gives upper = the floor value and
\* lower = -infinity; "less" gives lower = the cap value and
\* upper = +infinity.
C13_StrikeBoundsAsStated ==
    KalshiContractMade =>
        /\ payload.market.strike_type = S("greater") =>
                /\ result.val.strike_upper = Get(payload.market.floor_strike, None)
                /\ result.val.strike_lower = NegInf
        /\ payload.market.strike_type = S("less") =>
                /\ result.val.strike_lower = Get(payload.market.cap_strike, None)
                /\ result.val.strike_upper = Inf

\* every contract the call produced, of either platform
ProducedContracts ==
    CASE step # "done" -> {}
      [] payload.kind = "kalshi_market" ->
            IF result.kind = "return" THEN {result.val} ELSE {}
      [] payload.kind = "kalshi_event_payload" ->
            IF result.val # None THEN Range(result.val.contracts) ELSE {}
      [] OTHER -> ReturnedPolymarketContracts

\* C14: every contract produced by normalization, of either platform, with
\* any strike_type and any of floor_strike and cap_strike present or absent,
\* has a strike_upper and a strike_lower that are not null.
C14_StrikeBoundsNeverNull ==
    \A c \in ProducedContracts :
        /\ c.strike_upper # None
        /\ c.strike_lower # None

\* C7: whatever the HTTP requests are answered (transport error, error
\* status, malformed or unexpected body), a fetcher returns a list of
\* bundles to its caller and raises nothing.
C7_FetcherNeverRaises ==
    (step = "done" /\ payload.kind = "polymarket_events_response") =>
        result.kind = "return"

-----------------------------------------------------------------------------
(* The refresh thread: main.py 26-63 with load_kalshi_bundles and           *)
(* enrich_with_orderbooks (kalshi_ingest.py 45-64) run inside it.  Each     *)
(* request is one step; what lies between two requests belongs to the step  *)
(* of the request before it.                                                *)

MaxCycles == 2
MaxResponseMarkets == 2

Unreadable == [t |-> "unreadable"]

\* config.json: absent or not JSON, or a dict with the two lists
Configs ==
    {Unreadable}
    \cup {[t |-> "dict", kalshi_event_tickers |-> k, polymarket_event_slugs |-> p] :
            k \in {Missing, L(<<>>), L(<<"KXA">>), L(<<"KXA", "KXB">>)},
            p \in {L(<<>>), L(<<"some-slug">>)}}

ResponseMarkets ==
    {KalshiMarket(S("K-A"), Missing, S("greater"), F(Num(10)), Missing),
     KalshiMarket(S("K-B"), None, S("less"), Missing, F(Num(20))),
     KalshiMarket(Missing, Missing, Missing, Missing, Missing)}

NestedEvent(title, markets) ==
    [title |-> title, series_ticker |-> Missing, event_ticker |-> S("KEV"),
     strike_date |-> Missing, markets |-> markets]

\* what GET /events/{ticker}?with_nested_markets=true can be answered
EventResponses ==
    {Response("ConnectError", StatusOK, NotJson),
     Response(NoError, StatusServerError, NotJson),
     Response(NoError, StatusOK, NotJson),
     Response(NoError, StatusOK, J([event |-> Missing, markets |-> Missing])),
     Response(NoError, StatusOK,
              J([event |-> NestedEvent(S("An event"), Missing), markets |-> Missing])),
     Response(NoError, StatusOK,
              J([event |-> NestedEvent(Missing, L(<<CHOOSE m \in ResponseMarkets :
                                                      m.ticker = S("K-A")>>)),
                 markets |-> Missing]))}
    \cup {Response(NoError, StatusOK,
                   J([event |-> NestedEvent(S("An event"), L(l)), markets |-> Missing])) :
            l \in SeqsUpTo(ResponseMarkets, MaxResponseMarkets)}

ListSide(items) == [is_list |-> TRUE, items |-> items]

\* what GET /markets/{ticker}/orderbook can be answered
OrderbookResponses ==
    {Response("ReadTimeout", StatusOK, NotJson),
     Response(NoError, StatusServerError, NotJson),
     Response(NoError, StatusOK, NotJson),
     Response(NoError, StatusOK, J([orderbook |-> Missing])),
     Response(NoError, StatusOK,
              J([orderbook |->
                   [yes |-> ListSide(<<<<Num(20), Num(40)>>, <<Num(60), Num(60)>>>>),
                    no |-> [is_list |-> FALSE, items |-> <<>>]]]))}

Tickers == config.kalshi_event_tickers.v

IsBundle(b) == b # None

Logged(request, resp) ==
    Append(http_log, [request |-> request, ti |-> ti, ci |-> ci, response |-> resp])

InitLoop ==
    /\ payload = None
    /\ result = None
    /\ step = "idle"
    /\ pc = "read_config"
    /\ cycle = 0
    /\ config = None
    /\ caught = NoError
    /\ kalshi_filtered = None
    /\ polymarket_filtered = None
    /\ ti = 0
    /\ bundles = <<>>
    /\ bundle = None
    /\ ci = 0
    /\ http_log = <<>>
    /\ shared_data = [kalshi |-> <<>>, polymarket |-> <<>>]
    /\ shared_data_lock = "free"
    /\ published = {[kalshi |-> <<>>, polymarket |-> <<>>]}
    /\ reader_pc = "idle"
    /\ seen = None

\* main.py 30-41: a pass of the loop begins; config.json is read
ReadConfig ==
    /\ pc = "read_config"
    /\ cycle < MaxCycles
    /\ cycle' = cycle + 1
    /\ \E c \in Configs :
        /\ config' = c
        /\ IF c = Unreadable
           THEN /\ caught' = "OSError"
                /\ pc' = "sleep"
                /\ ti' = 0
           ELSE IF ~Truthy(Get(c.kalshi_event_tickers, L(<<>>)))
           THEN /\ caught' = NoError
                /\ pc' = "sleep"
                /\ ti' = 0
           ELSE /\ caught' = NoError
                /\ pc' = "fetch_event"
                /\ ti' = 1
    /\ kalshi_filtered' = None
    /\ polymarket_filtered' = None
    /\ bundles' = <<>>
    /\ bundle' = None
    /\ ci' = 0
    /\ http_log' = <<>>
    /\ UNCHANGED <<harness_vars, shared_vars, reader_vars>>

\* an exception leaves load_kalshi_bundles and is caught at main.py 60
PropagateFatal(exc) ==
    /\ caught' = exc
    /\ pc' = "terminated"
    /\ UNCHANGED <<ti, bundles, bundle, ci, kalshi_filtered>>
Propagate(exc) ==
    /\ caught' = exc
    /\ pc' = "sleep"
    /\ UNCHANGED <<ti, bundles, bundle, ci, kalshi_filtered>>

\* the for loop of load_kalshi_bundles moves on with the list new_bundles:
\* to the next ticker, or to its return and main.py 43-50
NextTicker(new_bundles) ==
    /\ bundles' = new_bundles
    /\ bundle' = None
    /\ ci' = 0
    /\ caught' = NoError
    /\ IF ti < Len(Tickers)
       THEN /\ ti' = ti + 1
            /\ pc' = "fetch_event"
            /\ UNCHANGED kalshi_filtered
       ELSE /\ ti' = ti
            /\ kalshi_filtered' = L(SelectSeq(new_bundles, IsBundle))
            /\ pc' = IF Truthy(Get(config.polymarket_event_slugs, L(<<>>)))
                     THEN "call_load_polymarket_bundles"
                     ELSE "sleep"

\* kalshi_ingest.py 48-53 and 45-46: the event of ticker ti is requested
FetchEvent ==
    /\ pc = "fetch_event"
    /\ \E resp \in EventResponses :
        LET fetched == fetch_event_with_markets(resp)
        IN  /\ http_log' = Logged("event", resp)
            /\ IF fetched.kind = "raise"
               THEN IF IsHTTPError(fetched.exc)
                    THEN NextTicker(bundles)
                    ELSE Propagate(fetched.exc)
               ELSE IF fetched.val = None
               THEN Propagate("AttributeError")
               ELSE IF fetched.val.contracts = <<>>
               THEN NextTicker(Append(bundles, fetched.val))
               ELSE /\ bundle' = fetched.val
                    /\ ci' = 1
                    /\ pc' = "fetch_orderbook"
                    /\ UNCHANGED <<ti, bundles, caught, kalshi_filtered>>
    /\ UNCHANGED <<harness_vars, cycle, config, polymarket_filtered, shared_vars, reader_vars>>

\* kalshi_ingest.py 45-51: the order book of contract ci is requested
FetchOrderbook ==
    /\ pc = "fetch_orderbook"
    /\ \E resp \in OrderbookResponses :
        LET orderbook == fetch_orderbook(resp)
            enriched == IF orderbook.kind = "return"
                        THEN [bundle EXCEPT !.contracts[ci].order_book = orderbook.val]
                        ELSE bundle
        IN  /\ http_log' = Logged("orderbook", resp)
            /\ IF orderbook.kind = "raise" /\ ~IsHTTPError(orderbook.exc)
               THEN Propagate(orderbook.exc)
               ELSE IF ci < Len(bundle.contracts)
               THEN /\ bundle' = enriched
                    /\ ci' = ci + 1
                    /\ UNCHANGED <<pc, ti, bundles, caught, kalshi_filtered>>
               ELSE NextTicker(Append(bundles, enriched))
    /\ UNCHANGED <<harness_vars, cycle, config, polymarket_filtered, shared_vars, reader_vars>>

\* main.py 52-53: load_polymarket_bundles(params={"slug": polymarket_slugs}).
\* The keyword has to bind to a parameter of the callee, else the call
\* raises TypeError before the callee runs.
CallLoadPolymarketBundles ==
    /\ pc = "call_load_polymarket_bundles"
    /\ IF Binds({"params"}, load_polymarket_bundles_parameters)
       THEN \E resp \in PolymarketResponses :
                LET polymarket_data == load_polymarket_bundles(resp)
                IN  IF polymarket_data.kind = "raise"
                    THEN /\ caught' = polymarket_data.exc
                         /\ pc' = "sleep"
                         /\ UNCHANGED polymarket_filtered
                    ELSE /\ polymarket_filtered' = L(SelectSeq(polymarket_data.val, IsBundle))
                         /\ pc' = "publish"
                         /\ UNCHANGED caught
       ELSE /\ caught' = "TypeError"
            /\ pc' = "sleep"
            /\ UNCHANGED polymarket_filtered
    /\ UNCHANGED <<harness_vars, cycle, config, kalshi_filtered,
                   load_vars, shared_vars, reader_vars>>

\* main.py 40, 49, 63: time.sleep(5), then the next pass
Sleep ==
    /\ pc = "sleep"
    /\ pc' = "read_config"
    /\ UNCHANGED <<harness_vars, cycle, config, caught, kalshi_filtered,
                   polymarket_filtered, load_vars, shared_vars, reader_vars>>

Next == ReadConfig \/ FetchEvent \/ FetchOrderbook \/ CallLoadPolymarketBundles \/ Sleep

Spec == InitLoop /\ [][Next]_vars

\* The thread is scheduled, and every step ends: the file read, a request
\* (httpx timeout, kalshi_ingest.py 55) and time.sleep(5).
\* Every step of Next changes the position.
position == <<pc, cycle, ti, ci>>

SpecLive == InitLoop /\ [][Next]_vars /\ WF_position(Next)

-----------------------------------------------------------------------------
(* Properties of the exchange-style load and of a pass of the loop *)

EventEntries == {i \in 1..Len(http_log) : http_log[i].request = "event"}
OrderbookEntries == {i \in 1..Len(http_log) : http_log[i].request = "orderbook"}

\* the answer carried an event, and the event did not parse
EventParseFailed(entry) ==
    /\ GetJson(entry.response).kind = "return"
    /\ GetJson(entry.response).val.event # Missing
    /\ event_from_kalshi_json(GetJson(entry.response).val.event).kind = "raise"

\* the request was answered with a bundle
GaveBundle(entry) ==
    /\ fetch_event_with_markets(entry.response).kind = "return"
    /\ fetch_event_with_markets(entry.response).val # None

\* load_kalshi_bundles was called in this pass and is over
KalshiLoadOver ==
    /\ pc \in {"call_load_polymarket_bundles", "sleep"}
    /\ http_log # <<>>

Requested(t) == \E i \in EventEntries : http_log[i].ti = t

\* C6: when the event of one ticker does not parse, no bundle is made for
\* it and the load goes on: the other tickers of the same load are still
\* requested and their bundles returned.
C6_BadEventOnlyLosesItsBundle ==
    (KalshiLoadOver /\ \E i \in EventEntries :
                          EventParseFailed(http_log[i]) /\ http_log[i].ti < Len(Tickers)) =>
        /\ \A t \in 1..Len(Tickers) : Requested(t)
        /\ kalshi_filtered # None
        /\ Len(kalshi_filtered.v) = Cardinality({i \in EventEntries : GaveBundle(http_log[i])})

\* the place in the returned list of the bundle of ticker t
BundleIndex(t) ==
    Cardinality({i \in EventEntries : http_log[i].ti <= t /\ GaveBundle(http_log[i])})

OrderbookRequests(t, c) ==
    {i \in OrderbookEntries : http_log[i].ti = t /\ http_log[i].ci = c}

\* C8: when the order-book fetch of one contract fails, the contract's
\* order_book stays unset, the fetch is not repeated in the pass, every
\* other contract of the bundle has its order book fetched and, on success,
\* attached, and the bundle is returned.
C8_FailedBookOnlyLosesItself ==
    KalshiLoadOver =>
        \A i \in OrderbookEntries :
            fetch_orderbook(http_log[i].response).kind = "raise" =>
                /\ kalshi_filtered # None
                /\ LET t == http_log[i].ti
                       b == kalshi_filtered.v[BundleIndex(t)]
                   IN  /\ b.contracts[http_log[i].ci].order_book = None
                       /\ \A c \in 1..Len(b.contracts) :
                            /\ Cardinality(OrderbookRequests(t, c)) = 1
                            /\ \A j \in OrderbookRequests(t, c) :
                                 fetch_orderbook(http_log[j].response).kind = "return" =>
                                     b.contracts[c].order_book
                                         = fetch_orderbook(http_log[j].response).val

\* every request of the pass was answered and the answer made a bundle or
\* an order book
AllFetchesSucceeded ==
    /\ \A i \in EventEntries : GaveBundle(http_log[i])
    /\ \A i \in OrderbookEntries : fetch_orderbook(http_log[i].response).kind = "return"

\* C10: a pass with non-empty ticker and slug lists whose fetches all
\* succeed publishes a snapshot, after which shared_data holds exactly the
\* bundles assembled in that pass, for both platforms.
C10_PassSupersedesSnapshot ==
    (/\ pc = "sleep"
     /\ config # Unreadable
     /\ Truthy(Get(config.kalshi_event_tickers, L(<<>>)))
     /\ Truthy(Get(config.polymarket_event_slugs, L(<<>>)))
     /\ AllFetchesSucceeded) =>
        /\ caught = NoError
        /\ kalshi_filtered # None
        /\ polymarket_filtered # None
        /\ shared_data = [kalshi |-> kalshi_filtered.v, polymarket |-> polymarket_filtered.v]
        /\ shared_data \in published

\* C11: whatever fails inside a pass, the loop does not end: every pass
\* comes back to the head of the loop, the next pass is started (up to
\* MaxCycles), and a pass starts only at the head of the loop, which is
\* reached only when the pass before it is over.
C11_LoopNeverDies ==
    /\ (pc # "read_config") ~> (pc = "read_config")
    /\ \A n \in 0..(MaxCycles - 1) : (cycle = n) ~> (cycle = n + 1)
    /\ [][pc = "read_config" /\ cycle' = cycle + 1]_cycle

\* a pass ended in an exception and the loop is back at its head
C11_Witness ==
    /\ pc = "read_config"
    /\ cycle >= 1
    /\ caught \in {"OSError", "AttributeError", "JSONDecodeError", "KeyError", "TypeError"}

KalshiConfigured == Truthy(Get(config.kalshi_event_tickers, L(<<>>)))
PolymarketConfigured == Truthy(Get(config.polymarket_event_slugs, L(<<>>)))

\* C12: a pass that finds the list of one platform missing or empty skips
\* that platform only: the other platform, whose list is not empty, is
\* fetched and its entry of shared_data is refreshed with the bundles of the
\* pass, and the entry of the skipped platform is left as it was.
C12_ConfigErrorsArePerPlatform ==
    (pc = "sleep" /\ config # Unreadable) =>
        /\ (KalshiConfigured /\ ~PolymarketConfigured /\ AllFetchesSucceeded) =>
                /\ kalshi_filtered # None
                /\ shared_data.kalshi = kalshi_filtered.v
                /\ shared_data.polymarket = <<>>
        /\ (~KalshiConfigured /\ PolymarketConfigured) =>
                /\ polymarket_filtered # None
                /\ shared_data.polymarket = polymarket_filtered.v
                /\ shared_data.kalshi = <<>>

-----------------------------------------------------------------------------
(* The publish step and a reader: main.py 55-58 and 97-110.  The refresh    *)
(* thread stands before line 56 holding the two lists a pass assembled;     *)
(* a request thread renders the landing page.  In Spec no pass gets this    *)
(* far (CallLoadPolymarketBundles); here the step is taken as written.      *)

SampleKalshiEvent(markets) ==
    [kind |-> "kalshi_event_payload", event |-> KalshiEvent(S("An event")),
     markets |-> L(markets)]

\* lists load_kalshi_bundles can return
KalshiOutputs ==
    {<<from_kalshi_event_payload(SampleKalshiEvent(m)).val>> :
        m \in SeqsUpTo({CHOOSE k \in ResponseMarkets : k.ticker = S("K-A")}, 1)}

\* lists extract_polymarket_bundles can return
PolymarketOutputs ==
    {extract_polymarket_bundles(
        <<PolymarketEvent(S("An event"), S("2025-12-31T00:00:00Z"), L(<<m>>))>>) :
        m \in PolymarketMarkets}

InitSwap ==
    /\ payload = None
    /\ result = None
    /\ step = "idle"
    /\ pc = "publish"
    /\ cycle = 1
    /\ config = None
    /\ caught = NoError
    /\ kalshi_filtered \in {L(k) : k \in KalshiOutputs}
    /\ polymarket_filtered \in {L(k) : k \in PolymarketOutputs}
    /\ ti = 0
    /\ bundles = <<>>
    /\ bundle = None
    /\ ci = 0
    /\ http_log = <<>>
    /\ shared_data = [kalshi |-> <<>>, polymarket |-> <<>>]
    /\ shared_data_lock = "free"
    /\ published = {[kalshi |-> <<>>, polymarket |-> <<>>]}
    /\ reader_pc = "idle"
    /\ seen = None

\* main.py 56: with shared_data_lock
AcquireLock ==
    /\ pc = "publish"
    /\ shared_data_lock = "free"
    /\ shared_data_lock' = "update_data_loop"
    /\ pc' = "write_kalshi"
    /\ UNCHANGED <<harness_vars, cycle, config, caught, kalshi_filtered,
                   polymarket_filtered, load_vars, shared_data, published, reader_vars>>

\* main.py 57
WriteKalshi ==
    /\ pc = "write_kalshi"
    /\ shared_data' = [shared_data EXCEPT !.kalshi = kalshi_filtered.v]
    /\ pc' = "write_polymarket"
    /\ UNCHANGED <<harness_vars, cycle, config, caught, kalshi_filtered,
                   polymarket_filtered, load_vars, shared_data_lock, published, reader_vars>>

\* main.py 58; the snapshot of this pass is complete
WritePolymarketSkipped ==
    /\ pc = "write_polymarket"
    /\ pc' = "release"
    /\ UNCHANGED <<harness_vars, cycle, config, caught, kalshi_filtered,
                   polymarket_filtered, load_vars, shared_vars, reader_vars>>
WritePolymarket ==
    /\ pc = "write_polymarket"
    /\ shared_data' = [shared_data EXCEPT !.polymarket = polymarket_filtered.v]
    /\ published' = published \cup {shared_data'}
    /\ pc' = "release"
    /\ UNCHANGED <<harness_vars, cycle, config, caught, kalshi_filtered,
                   polymarket_filtered, load_vars, shared_data_lock, reader_vars>>

\* the end of the with block
ReleaseLock ==
    /\ pc = "release"
    /\ shared_data_lock' = "free"
    /\ pc' = "sleep"
    /\ UNCHANGED <<harness_vars, cycle, config, caught, kalshi_filtered,
                   polymarket_filtered, load_vars, shared_data, published, reader_vars>>

\* main.py 63 and a later pass that stands before line 56 with its lists
NextPassReachesPublish ==
    /\ pc = "sleep"
    /\ cycle < MaxCycles
    /\ cycle' = cycle + 1
    /\ kalshi_filtered' \in {L(k) : k \in KalshiOutputs}
    /\ polymarket_filtered' \in {L(k) : k \in PolymarketOutputs}
    /\ pc' = "publish"
    /\ UNCHANGED <<harness_vars, config, caught, load_vars, shared_vars, reader_vars>>

\* main.py 100-101, source = 'kalshi': shared_data['kalshi'] is looked up
\* and iterated; no lock is taken
ReadKalshi ==
    /\ reader_pc = "idle"
    /\ seen' = [kalshi |-> shared_data.kalshi, polymarket |-> <<>>]
    /\ reader_pc' = "read_polymarket"
    /\ UNCHANGED <<harness_vars, loop_vars, load_vars, shared_vars>>

\* main.py 100-101, source = 'polymarket'
ReadPolymarket ==
    /\ reader_pc = "read_polymarket"
    /\ seen' = [seen EXCEPT !.polymarket = shared_data.polymarket]
    /\ reader_pc' = "rendered"
    /\ UNCHANGED <<harness_vars, loop_vars, load_vars, shared_vars>>

\* main.py 112-117: the page is returned; the thread serves the next request
ReturnPage ==
    /\ reader_pc = "rendered"
    /\ seen' = None
    /\ reader_pc' = "idle"
    /\ UNCHANGED <<harness_vars, loop_vars, load_vars, shared_vars>>

NextSwap ==
    \/ AcquireLock
    \/ WriteKalshi
    \/ WritePolymarket
    \/ ReleaseLock
    \/ NextPassReachesPublish
    \/ ReadKalshi
    \/ ReadPolymarket
    \/ ReturnPage

SpecSwap == InitSwap /\ [][NextSwap]_vars

C16_BothOrNeither ==
    shared_data_lock = "free" => shared_data \in published

\* the second publish is over: the lock is free and both entries are the
\* lists of the second pass, which differ from those of the first
C16_Witness ==
    /\ shared_data_lock = "free"
    /\ pc = "sleep"
    /\ cycle = 2
    /\ shared_data = [kalshi |-> kalshi_filtered.v, polymarket |-> polymarket_filtered.v]
    /\ \E first \in published :
          /\ first.kalshi \notin {<<>>, shared_data.kalshi}
          /\ first.polymarket \notin {<<>>, shared_data.polymarket}

====
